---- MODULE Spec2Model ----
(***************************************************************************)
(* Model of the job kickoff / status core of api_server.py.                *)
(*                                                                         *)
(* The registry `executions` is a process-wide dict.  The two HTTP         *)
(* handlers (kickoff, get_status) are coroutines without an await, so the  *)
(* event loop runs one of them at a time; every job has its own worker     *)
(* thread running run_crew_async, and the interpreter may switch between   *)
(* the event-loop thread and any worker thread between two statements.     *)
(* Each action below is one statement (or one field read) of the source.   *)
(***************************************************************************)
EXTENDS Integers, Sequences, FiniteSets, TLC

VARIABLES executions, wpc, w_inputs, w_result, w_e, invocations,
          clock, hpc, h, log, history

vars == <<executions, wpc, w_inputs, w_result, w_e, invocations,
          clock, hpc, h, log, history>>

(* ------------------------------ bounds --------------------------------- *)
MaxJobs == 2
MaxRequests == 2

(* ------------------------------ values --------------------------------- *)
\* Python's None / Optional[x]: None is the empty tuple, a value x is <<x>>.
None == <<>>
Some(x) == <<x>>

\* The identifiers uuid.uuid4() can draw from; one more than the number of
\* jobs, so that some identifier is never issued.
Ids == 1 .. (MaxJobs + 1)

\* request.inputs payloads (opaque to the server).
Inputs == {"in1", "in2"}

\* Request bodies of POST /kickoff: with an inputs mapping, or without one.
Bodies == [inputs : Inputs] \cup {[other |-> "x"]}

\* What crew().kickoff() can return: an object with a .raw text, an object
\* without .raw, and an object whose conversion to text raises.
Results ==
    { [hasRaw |-> TRUE,  raw |-> "raw1", repr |-> "obj1", strOk |-> TRUE],
      [hasRaw |-> FALSE, raw |-> "",     repr |-> "obj2", strOk |-> TRUE],
      [hasRaw |-> TRUE,  raw |-> "raw3", repr |-> "obj3", strOk |-> FALSE] }

NoResult == [hasRaw |-> FALSE, raw |-> "", repr |-> "", strOk |-> TRUE]

\* Messages str(e) of the exceptions the workflow can raise.
ErrMsgs == {"boom"}

\* Message of the exception raised by a failing str() conversion.
ConvErr == "conv"

States == {"PENDING", "RUNNING", "SUCCESS", "FAILED"}
Terminal == {"SUCCESS", "FAILED"}

(* ------------------------------ helpers -------------------------------- *)
\* The instants datetime.now() can return.  Two are enough to tell a
\* timestamp that was written again later from one that was kept.
Instants == 0 .. 1

\* datetime.now() when the last reading was t: time does not go back.
now(t) == {u \in Instants : u >= t}

\* datetime.now().isoformat(): the text of the instant t.
isoformat(t) == Some(t)

\* str(result.raw) if hasattr(result, 'raw') else str(result)
output(result) == IF result.hasRaw THEN result.raw ELSE result.repr

\* NewExecution with the record created already in a terminal state.
NewExecution_Failed(t, inputs) ==
    [state |-> "FAILED",
     started_at |-> isoformat(t),
     completed_at |-> None,
     last_executed_task |-> None,
     error |-> None,
     inputs |-> inputs]

\* The dict stored by kickoff for a new execution.
NewExecution(t, inputs) ==
    [state |-> "PENDING",
     started_at |-> isoformat(t),
     completed_at |-> None,
     last_executed_task |-> None,
     error |-> None,
     inputs |-> inputs]

\* executions[kickoff_id][field] = value
SetField(execs, kickoff_id, field, value) ==
    [execs EXCEPT ![kickoff_id] = [@ EXCEPT ![field] = value]]

\* executions[kickoff_id] = record
Insert(execs, kickoff_id, record) ==
    [k \in DOMAIN execs \cup {kickoff_id} |->
        IF k = kickoff_id THEN record ELSE execs[k]]

\* uuid4 that may return an identifier already in use.
uuid4_Any(execs) == Ids

\* uuid.uuid4(): the identifiers a call can return.  A random 122-bit value
\* is taken never to repeat one that is already a key of the registry.
\* Identifiers are opaque (nothing in the server compares or orders them),
\* so which unused one is drawn makes no difference: the least is drawn.
uuid4(execs) ==
    {i \in Ids \ DOMAIN execs : \A j \in Ids \ DOMAIN execs : i <= j}

\* pydantic validation of KickoffRequest: the body has an inputs mapping.
Valid(body) == "inputs" \in DOMAIN body

HIdle == [kickoff_id |-> 0, inputs |-> "", state |-> "",
          last_executed_task |-> None, started_at |-> None,
          completed_at |-> None, seenDone |-> FALSE]

(* ------------------------------- Init ---------------------------------- *)
Init ==
    /\ executions = [k \in {} |-> NewExecution(0, "")]
    /\ wpc = [k \in Ids |-> "unstarted"]
    /\ w_inputs = [k \in Ids |-> ""]
    /\ w_result = [k \in Ids |-> NoResult]
    /\ w_e = [k \in Ids |-> ""]
    /\ invocations = [k \in Ids |-> <<>>]
    /\ clock = 0
    /\ hpc = "idle"
    /\ h = HIdle
    /\ log = <<>>
    /\ history = [k \in Ids |-> <<>>]

(* ------------------------------ history -------------------------------- *)
\* history[k] lists, in order, the values the dict executions[k] has held.
\* Recorded(execs) is the history once the registry has become execs.
Recorded(execs) ==
    [k \in Ids |->
        IF k \in DOMAIN execs
             /\ (history[k] = <<>> \/ history[k][Len(history[k])] # execs[k])
        THEN Append(history[k], execs[k])
        ELSE history[k]]

(* ------------------------- run_crew_async ------------------------------ *)
WorkerFrame ==
    /\ UNCHANGED <<hpc, h, log>>
    /\ history' = Recorded(executions')

\* line 76: executions[kickoff_id]["state"] = "RUNNING"
W76(id) ==
    /\ wpc[id] = "L76"
    /\ executions' = SetField(executions, id, "state", "RUNNING")
    /\ wpc' = [wpc EXCEPT ![id] = "L79"]
    /\ UNCHANGED <<w_inputs, w_result, w_e, invocations, clock>>
    /\ WorkerFrame

\* lines 79-80: build the crew and run it on inputs; it returns a result or
\* raises an Exception.
W79(id) ==
    /\ wpc[id] = "L79"
    /\ \/ \E r \in Results :
            /\ w_result' = [w_result EXCEPT ![id] = r]
            /\ wpc' = [wpc EXCEPT ![id] = "L83"]
            /\ invocations' = [invocations EXCEPT ![id] =
                  Append(@, [inputs |-> w_inputs[id], outcome |-> "returned"])]
            /\ UNCHANGED w_e
       \/ \E m \in ErrMsgs :
            /\ w_e' = [w_e EXCEPT ![id] = m]
            /\ wpc' = [wpc EXCEPT ![id] = "L91"]
            /\ invocations' = [invocations EXCEPT ![id] =
                  Append(@, [inputs |-> w_inputs[id], outcome |-> "raised"])]
            /\ UNCHANGED w_result
    /\ UNCHANGED <<executions, w_inputs, clock>>
    /\ WorkerFrame

\* line 83: executions[kickoff_id]["state"] = "SUCCESS"
W83(id) ==
    /\ wpc[id] = "L83"
    /\ executions' = SetField(executions, id, "state", "SUCCESS")
    /\ wpc' = [wpc EXCEPT ![id] = "L84"]
    /\ UNCHANGED <<w_inputs, w_result, w_e, invocations, clock>>
    /\ WorkerFrame

\* line 84: executions[kickoff_id]["completed_at"] = datetime.now().isoformat()
W84(id) ==
    /\ wpc[id] = "L84"
    /\ \E t \in now(clock) :
         /\ clock' = t
         /\ executions' = SetField(executions, id, "completed_at", isoformat(t))
    /\ wpc' = [wpc EXCEPT ![id] = "L85"]
    /\ UNCHANGED <<w_inputs, w_result, w_e, invocations>>
    /\ WorkerFrame

\* W85 that always stores str(result), ignoring result.raw.
W85_StrResult(id) ==
    /\ wpc[id] = "L85"
    /\ IF w_result[id].strOk
       THEN /\ executions' = SetField(executions, id, "last_executed_task",
                   Some([output |-> w_result[id].repr,
                         task_name |-> "final_output_assembly"]))
            /\ wpc' = [wpc EXCEPT ![id] = "done"]
            /\ UNCHANGED w_e
       ELSE /\ w_e' = [w_e EXCEPT ![id] = ConvErr]
            /\ wpc' = [wpc EXCEPT ![id] = "L91"]
            /\ UNCHANGED executions
    /\ UNCHANGED <<w_inputs, w_result, invocations, clock>>
    /\ WorkerFrame

\* W85 that stores the task dict before the conversion has succeeded.
W85_StoreThenRaise(id) ==
    /\ wpc[id] = "L85"
    /\ executions' = SetField(executions, id, "last_executed_task",
           Some([output |-> IF w_result[id].strOk
                            THEN output(w_result[id]) ELSE "",
                 task_name |-> "final_output_assembly"]))
    /\ IF w_result[id].strOk
       THEN /\ wpc' = [wpc EXCEPT ![id] = "done"]
            /\ UNCHANGED w_e
       ELSE /\ w_e' = [w_e EXCEPT ![id] = ConvErr]
            /\ wpc' = [wpc EXCEPT ![id] = "L91"]
    /\ UNCHANGED <<w_inputs, w_result, invocations, clock>>
    /\ WorkerFrame

\* lines 85-88: executions[kickoff_id]["last_executed_task"] = {...}; the
\* dict is built first, so a raising str() leaves the field untouched and
\* control goes to the except clause.
W85(id) ==
    /\ wpc[id] = "L85"
    /\ IF w_result[id].strOk
       THEN /\ executions' = SetField(executions, id, "last_executed_task",
                   Some([output |-> output(w_result[id]),
                         task_name |-> "final_output_assembly"]))
            /\ wpc' = [wpc EXCEPT ![id] = "done"]
            /\ UNCHANGED w_e
       ELSE /\ w_e' = [w_e EXCEPT ![id] = ConvErr]
            /\ wpc' = [wpc EXCEPT ![id] = "L91"]
            /\ UNCHANGED executions
    /\ UNCHANGED <<w_inputs, w_result, invocations, clock>>
    /\ WorkerFrame

\* W91 that marks every record FAILED instead of its own.
W91_All(id) ==
    /\ wpc[id] = "L91"
    /\ executions' = [k \in DOMAIN executions |->
                         [executions[k] EXCEPT !.state = "FAILED"]]
    /\ wpc' = [wpc EXCEPT ![id] = "L92"]
    /\ UNCHANGED <<w_inputs, w_result, w_e, invocations, clock>>
    /\ WorkerFrame

\* W91 that swallows the exception: the worker ends without a write.
W91_Swallow(id) ==
    /\ wpc[id] = "L91"
    /\ wpc' = [wpc EXCEPT ![id] = "done"]
    /\ UNCHANGED <<executions, w_inputs, w_result, w_e, invocations, clock>>
    /\ WorkerFrame

\* W91 that retries the workflow once before it gives up.
W91_Retry(id) ==
    /\ wpc[id] = "L91"
    /\ IF Len(invocations[id]) = 1 /\ invocations[id][1].outcome = "raised"
       THEN /\ wpc' = [wpc EXCEPT ![id] = "L79"]
            /\ UNCHANGED executions
       ELSE /\ wpc' = [wpc EXCEPT ![id] = "L92"]
            /\ executions' = SetField(executions, id, "state", "FAILED")
    /\ UNCHANGED <<w_inputs, w_result, w_e, invocations, clock>>
    /\ WorkerFrame

\* line 91: executions[kickoff_id]["state"] = "FAILED"
W91(id) ==
    /\ wpc[id] = "L91"
    /\ executions' = SetField(executions, id, "state", "FAILED")
    /\ wpc' = [wpc EXCEPT ![id] = "L92"]
    /\ UNCHANGED <<w_inputs, w_result, w_e, invocations, clock>>
    /\ WorkerFrame

\* W92 that forgets to store the error text.
W92_Skip(id) ==
    /\ wpc[id] = "L92"
    /\ wpc' = [wpc EXCEPT ![id] = "L93"]
    /\ UNCHANGED <<executions, w_inputs, w_result, w_e, invocations, clock>>
    /\ WorkerFrame

\* line 92: executions[kickoff_id]["error"] = str(e)
W92(id) ==
    /\ wpc[id] = "L92"
    /\ executions' = SetField(executions, id, "error", Some(w_e[id]))
    /\ wpc' = [wpc EXCEPT ![id] = "L93"]
    /\ UNCHANGED <<w_inputs, w_result, w_e, invocations, clock>>
    /\ WorkerFrame

\* W93 that also reports the error text as the last task's output.
W93_TaskOutput(id) ==
    /\ wpc[id] = "L93"
    /\ \E t \in now(clock) :
         /\ clock' = t
         /\ executions' = SetField(
                SetField(executions, id, "completed_at", isoformat(t)),
                id, "last_executed_task",
                Some([output |-> w_e[id], task_name |-> "error"]))
    /\ wpc' = [wpc EXCEPT ![id] = "done"]
    /\ UNCHANGED <<w_inputs, w_result, w_e, invocations>>
    /\ WorkerFrame

\* lines 93-94: executions[kickoff_id]["completed_at"] = now; print(...)
W93(id) ==
    /\ wpc[id] = "L93"
    /\ \E t \in now(clock) :
         /\ clock' = t
         /\ executions' = SetField(executions, id, "completed_at", isoformat(t))
    /\ wpc' = [wpc EXCEPT ![id] = "done"]
    /\ UNCHANGED <<w_inputs, w_result, w_e, invocations>>
    /\ WorkerFrame

run_crew_async(id) ==
    \/ W76(id) \/ W79(id) \/ W83(id) \/ W84(id) \/ W85(id)
    \/ W91(id) \/ W92(id) \/ W93(id)

(* ------------------------------ kickoff -------------------------------- *)
HandlerFrame ==
    /\ UNCHANGED <<w_result, w_e, invocations>>
    /\ history' = Recorded(executions')

\* KickoffInvalid that stores a record before the body is validated.
KickoffInvalid_Insert(body) ==
    /\ hpc = "idle"
    /\ Len(log) < MaxRequests
    /\ ~Valid(body)
    /\ log' = Append(log, [op |-> "kickoff", code |-> 422, kickoff_id |-> 0,
                           body |-> None])
    /\ \E id \in uuid4(executions) :
         executions' = Insert(executions, id, NewExecution(clock, ""))
    /\ UNCHANGED <<wpc, w_inputs, clock, hpc, h>>
    /\ HandlerFrame

\* POST /kickoff arrives with a body that fails validation: FastAPI answers
\* 422 and the handler body never runs.
KickoffInvalid(body) ==
    /\ hpc = "idle"
    /\ Len(log) < MaxRequests
    /\ ~Valid(body)
    /\ log' = Append(log, [op |-> "kickoff", code |-> 422, kickoff_id |-> 0,
                           body |-> None])
    /\ UNCHANGED <<executions, wpc, w_inputs, clock, hpc, h>>
    /\ HandlerFrame

\* line 121: kickoff_id = str(uuid.uuid4())
K121(body) ==
    /\ hpc = "idle"
    /\ Len(log) < MaxRequests
    /\ Cardinality(DOMAIN executions) < MaxJobs
    /\ Valid(body)
    /\ \E id \in uuid4(executions) :
         h' = [HIdle EXCEPT !.kickoff_id = id, !.inputs = body.inputs]
    /\ hpc' = "K124"
    /\ UNCHANGED <<executions, wpc, w_inputs, clock, log>>
    /\ HandlerFrame

\* K124 that goes on to start the worker without storing the record.
K124_NoInsert ==
    /\ hpc = "K124"
    /\ hpc' = "K134"
    /\ UNCHANGED <<executions, clock, wpc, w_inputs, h, log>>
    /\ HandlerFrame

\* lines 124-131: executions[kickoff_id] = {...}
K124 ==
    /\ hpc = "K124"
    /\ \E t \in now(clock) :
         /\ clock' = t
         /\ executions' = Insert(executions, h.kickoff_id,
                                 NewExecution(t, h.inputs))
    /\ hpc' = "K134"
    /\ UNCHANGED <<wpc, w_inputs, h, log>>
    /\ HandlerFrame

\* K134 that starts the worker with an empty payload.
K134_EmptyInputs ==
    /\ hpc = "K134"
    /\ wpc' = [wpc EXCEPT ![h.kickoff_id] = "L76"]
    /\ w_inputs' = [w_inputs EXCEPT ![h.kickoff_id] = ""]
    /\ hpc' = "K141"
    /\ UNCHANGED <<executions, clock, h, log>>
    /\ HandlerFrame

\* lines 134-139: threading.Thread(target=run_crew_async, args=...).start()
K134 ==
    /\ hpc = "K134"
    /\ wpc' = [wpc EXCEPT ![h.kickoff_id] = "L76"]
    /\ w_inputs' = [w_inputs EXCEPT ![h.kickoff_id] = h.inputs]
    /\ hpc' = "K141"
    /\ UNCHANGED <<executions, clock, h, log>>
    /\ HandlerFrame

\* K141 that joins the worker thread before it answers.
K141_Join ==
    /\ hpc = "K141"
    /\ wpc[h.kickoff_id] = "done"
    /\ log' = Append(log, [op |-> "kickoff", code |-> 200,
                           kickoff_id |-> h.kickoff_id,
                           body |-> Some([status |-> "PENDING"])])
    /\ hpc' = "idle"
    /\ h' = HIdle
    /\ UNCHANGED <<executions, wpc, w_inputs, clock>>
    /\ HandlerFrame

\* lines 141-145: return KickoffResponse(kickoff_id, "PENDING", ...)
K141 ==
    /\ hpc = "K141"
    /\ log' = Append(log, [op |-> "kickoff", code |-> 200,
                           kickoff_id |-> h.kickoff_id,
                           body |-> Some([status |-> "PENDING"])])
    /\ hpc' = "idle"
    /\ h' = HIdle
    /\ UNCHANGED <<executions, wpc, w_inputs, clock>>
    /\ HandlerFrame

kickoff ==
    \/ \E body \in Bodies : KickoffInvalid(body) \/ K121(body)
    \/ K124 \/ K134 \/ K141

(* ----------------------------- get_status ------------------------------ *)
\* S161 that creates a default record for an unknown identifier
\* (executions.setdefault) before answering 404.
S161_Create(id) ==
    /\ hpc = "idle"
    /\ Len(log) < MaxRequests
    /\ IF id \notin DOMAIN executions
       THEN /\ log' = Append(log, [op |-> "status", code |-> 404,
                                   kickoff_id |-> id, body |-> None])
            /\ executions' = Insert(executions, id, NewExecution(clock, ""))
            /\ UNCHANGED <<hpc, h>>
       ELSE /\ hpc' = "S167"
            /\ h' = [HIdle EXCEPT !.kickoff_id = id,
                                  !.seenDone = (wpc[id] = "done")]
            /\ UNCHANGED <<log, executions>>
    /\ UNCHANGED <<wpc, w_inputs, clock>>
    /\ HandlerFrame

\* lines 161-164: unknown identifier -> 404; otherwise bind the record.
S161(id) ==
    /\ hpc = "idle"
    /\ Len(log) < MaxRequests
    /\ IF id \notin DOMAIN executions
       THEN /\ log' = Append(log, [op |-> "status", code |-> 404,
                                   kickoff_id |-> id, body |-> None])
            /\ UNCHANGED <<hpc, h>>
       ELSE /\ hpc' = "S167"
            /\ h' = [HIdle EXCEPT !.kickoff_id = id,
                                  !.seenDone = (wpc[id] = "done")]
            /\ UNCHANGED log
    /\ UNCHANGED <<executions, wpc, w_inputs, clock>>
    /\ HandlerFrame

\* line 167: state=execution["state"]
S167 ==
    /\ hpc = "S167"
    /\ h' = [h EXCEPT !.state = executions[h.kickoff_id].state]
    /\ hpc' = "S168"
    /\ UNCHANGED <<executions, wpc, w_inputs, clock, log>>
    /\ HandlerFrame

\* line 168: last_executed_task=execution["last_executed_task"]
S168 ==
    /\ hpc = "S168"
    /\ h' = [h EXCEPT !.last_executed_task =
                          executions[h.kickoff_id].last_executed_task]
    /\ hpc' = "S169"
    /\ UNCHANGED <<executions, wpc, w_inputs, clock, log>>
    /\ HandlerFrame

\* line 169: started_at=execution["started_at"]
S169 ==
    /\ hpc = "S169"
    /\ h' = [h EXCEPT !.started_at = executions[h.kickoff_id].started_at]
    /\ hpc' = "S170"
    /\ UNCHANGED <<executions, wpc, w_inputs, clock, log>>
    /\ HandlerFrame

\* line 170: completed_at=execution["completed_at"]
S170 ==
    /\ hpc = "S170"
    /\ h' = [h EXCEPT !.completed_at = executions[h.kickoff_id].completed_at]
    /\ hpc' = "S171"
    /\ UNCHANGED <<executions, wpc, w_inputs, clock, log>>
    /\ HandlerFrame

\* S171 that drops the record of a finished job once it has been reported.
S171_Evict ==
    /\ hpc = "S171"
    /\ log' = Append(log, [op |-> "status", code |-> 200,
                           kickoff_id |-> h.kickoff_id,
                           body |-> Some([state |-> h.state,
                               last_executed_task |-> h.last_executed_task,
                               started_at |-> h.started_at,
                               completed_at |-> h.completed_at,
                               error |-> executions[h.kickoff_id].error,
                               seenDone |-> h.seenDone])])
    /\ hpc' = "idle"
    /\ h' = HIdle
    /\ executions' =
          IF wpc[h.kickoff_id] = "done"
          THEN [k \in DOMAIN executions \ {h.kickoff_id} |-> executions[k]]
          ELSE executions
    /\ UNCHANGED <<wpc, w_inputs, clock>>
    /\ HandlerFrame

\* lines 171, 166: error=execution["error"]; return StatusResponse(...)
S171 ==
    /\ hpc = "S171"
    /\ log' = Append(log, [op |-> "status", code |-> 200,
                           kickoff_id |-> h.kickoff_id,
                           body |-> Some([state |-> h.state,
                               last_executed_task |-> h.last_executed_task,
                               started_at |-> h.started_at,
                               completed_at |-> h.completed_at,
                               error |-> executions[h.kickoff_id].error,
                               seenDone |-> h.seenDone])])
    /\ hpc' = "idle"
    /\ h' = HIdle
    /\ UNCHANGED <<executions, wpc, w_inputs, clock>>
    /\ HandlerFrame

get_status ==
    \/ \E id \in Ids : S161(id)
    \/ S167 \/ S168 \/ S169 \/ S170 \/ S171

(* --------------------------- specification ----------------------------- *)
Next ==
    \/ kickoff
    \/ get_status
    \/ \E id \in Ids : run_crew_async(id)

Spec == Init /\ [][Next]_vars

\* Scheduling: the event loop runs a handler it has entered to its end (the
\* handlers have no await), every started thread keeps being scheduled, and
\* a workflow call returns or raises.
FairSpec ==
    /\ Spec
    /\ WF_vars(kickoff)
    /\ \A id \in Ids : WF_vars(run_crew_async(id))

(* ===================== properties of the job core ====================== *)
Pairs == {<<i, j>> \in (1 .. Len(log)) \X (1 .. Len(log)) : i < j}

\* log[i] is a kickoff response that returned an identifier.
KickoffOK(i) == log[i].op = "kickoff" /\ log[i].code = 200

\* log[i] is a status response for identifier id.
StatusFor(i, id) == log[i].op = "status" /\ log[i].kickoff_id = id

\* The outcome of the workflow call of job id, "none" before the call.
Outcome(id) ==
    IF invocations[id] = <<>> THEN "none" ELSE invocations[id][1].outcome

\* A status body b shows exactly the fields of record r.
Reports(b, r) ==
    /\ b.state = r.state
    /\ b.last_executed_task = r.last_executed_task
    /\ b.started_at = r.started_at
    /\ b.completed_at = r.completed_at
    /\ b.error = r.error

(* C1: the state of every record changes only along PENDING -> RUNNING,    *)
(* RUNNING -> SUCCESS and RUNNING -> FAILED, a new record starts PENDING,   *)
(* and a terminal state never changes again.                               *)
AllowedTransitions ==
    { <<"PENDING", "RUNNING">>, <<"RUNNING", "SUCCESS">>,
      <<"RUNNING", "FAILED">> }

C1_StateMachine ==
    [][ /\ \A id \in DOMAIN executions :
             /\ id \in DOMAIN executions'
             /\ \/ executions'[id].state = executions[id].state
                \/ <<executions[id].state, executions'[id].state>>
                       \in AllowedTransitions
        /\ \A id \in DOMAIN executions' \ DOMAIN executions :
             executions'[id].state = "PENDING" ]_vars

(* C2: in every reachable state a record's last_executed_task is non-null   *)
(* iff its state is SUCCESS and its error is non-null iff its state is      *)
(* FAILED.                                                                 *)
C2_ResultErrorIffState ==
    \A id \in DOMAIN executions :
        /\ (executions[id].last_executed_task # None)
               <=> (executions[id].state = "SUCCESS")
        /\ (executions[id].error # None)
               <=> (executions[id].state = "FAILED")

(* C3: in every reachable state a record's completed_at is null exactly     *)
(* when its state is PENDING or RUNNING, and no status response shows a     *)
(* terminal state with completed_at null.                                   *)
C3_CompletedIffTerminal ==
    /\ \A id \in DOMAIN executions :
           (executions[id].completed_at # None)
               <=> (executions[id].state \in Terminal)
    /\ \A i \in 1 .. Len(log) :
           (log[i].op = "status" /\ log[i].code = 200
              /\ log[i].body[1].state \in Terminal)
               => log[i].body[1].completed_at # None

(* C4: the record of a kickoff identifier is in the registry, in state      *)
(* PENDING, before the worker thread is started and before kickoff          *)
(* returns; records are never removed; a status query for an identifier     *)
(* that kickoff has returned is never answered 404.                         *)
C4_Inv ==
    /\ \A id \in Ids : wpc[id] # "unstarted" => id \in DOMAIN executions
    /\ hpc = "K134" =>
          /\ h.kickoff_id \in DOMAIN executions
          /\ executions[h.kickoff_id].state = "PENDING"
          /\ wpc[h.kickoff_id] = "unstarted"
    /\ \A i \in 1 .. Len(log) :
          KickoffOK(i) => log[i].kickoff_id \in DOMAIN executions
    /\ \A p \in Pairs :
          (KickoffOK(p[1]) /\ StatusFor(p[2], log[p[1]].kickoff_id))
              => log[p[2]].code = 200

C4_RecordBeforeWorker ==
    /\ []C4_Inv
    /\ [][DOMAIN executions \subseteq DOMAIN executions']_vars

C4_Witness ==
    \E p \in Pairs :
        /\ KickoffOK(p[1])
        /\ StatusFor(p[2], log[p[1]].kickoff_id)
        /\ log[p[2]].code = 200
        /\ log[p[2]].body[1].state = "RUNNING"

(* C5 as stated: the status query that directly follows a kickoff, for the  *)
(* identifier it returned, is answered 200 with state PENDING or RUNNING.   *)
Immediate(i, id) ==
    /\ i + 1 <= Len(log)
    /\ KickoffOK(i)
    /\ log[i].kickoff_id = id
    /\ StatusFor(i + 1, id)

C5_ImmediatePendingOrRunning ==
    \A i \in 1 .. Len(log) : \A id \in Ids :
        Immediate(i, id) =>
            /\ log[i + 1].code = 200
            /\ log[i + 1].body[1].state \in {"PENDING", "RUNNING"}

(* C5 amended: that query is never answered 404, and it shows SUCCESS or    *)
(* FAILED only when the job's worker has already made its workflow call.    *)
C5_ImmediateNeverEarlyTerminal ==
    \A i \in 1 .. Len(log) : \A id \in Ids :
        Immediate(i, id) =>
            /\ log[i + 1].code = 200
            /\ log[i + 1].body[1].state \in States
            /\ log[i + 1].body[1].state \in Terminal => Outcome(id) # "none"

C5_Witness ==
    \E i \in 1 .. Len(log) : \E id \in Ids :
        /\ Immediate(i, id)
        /\ log[i + 1].code = 200
        /\ log[i + 1].body[1].state \in Terminal

(* C6: a status query for an identifier no kickoff has created is answered  *)
(* 404, and the step that answers 404 leaves the registry as it was.        *)
Answered404 ==
    /\ Len(log') = Len(log) + 1
    /\ log'[Len(log')].op = "status"
    /\ log'[Len(log')].code = 404

C6_NotFound ==
    /\ [](\A i \in 1 .. Len(log) :
             (log[i].op = "status"
                /\ log[i].kickoff_id \notin DOMAIN executions)
                 => log[i].code = 404)
    /\ [][Answered404 => executions' = executions]_vars

C6_Witness ==
    /\ DOMAIN executions # {}
    /\ \E i \in 1 .. Len(log) : log[i].op = "status" /\ log[i].code = 404

(* C7: when the workflow call of a job raised and the job's worker has      *)
(* finished, the record is FAILED with a non-null error, a null result and  *)
(* a non-null completed_at, and a status query made after that shows        *)
(* exactly this record.                                                     *)
C7_RaisedEndsFailed ==
    \A id \in Ids :
        (wpc[id] = "done" /\ Outcome(id) = "raised") =>
            /\ executions[id].state = "FAILED"
            /\ executions[id].error = Some(w_e[id])
            /\ executions[id].last_executed_task = None
            /\ executions[id].completed_at # None
            /\ \A i \in 1 .. Len(log) :
                  (StatusFor(i, id) /\ log[i].code = 200
                     /\ log[i].body[1].seenDone)
                      => Reports(log[i].body[1], executions[id])

C7_Witness ==
    \E id \in Ids : \E i \in 1 .. Len(log) :
        /\ wpc[id] = "done" /\ Outcome(id) = "raised"
        /\ StatusFor(i, id) /\ log[i].code = 200
        /\ log[i].body[1].seenDone
        /\ log[i].body[1].state = "FAILED"

(* C8 as stated: when the workflow call of a job returned and the worker    *)
(* has finished, the record is SUCCESS with a non-null result, a null       *)
(* error and a non-null completed_at.                                       *)
C8_ReturnedEndsSuccess ==
    \A id \in Ids :
        (wpc[id] = "done" /\ Outcome(id) = "returned") =>
            /\ executions[id].state = "SUCCESS"
            /\ executions[id].last_executed_task # None
            /\ executions[id].error = None
            /\ executions[id].completed_at # None

(* C8 amended: when the workflow call returned and the worker has finished, *)
(* then if the conversion of the output to text succeeded the record is     *)
(* SUCCESS with the converted output as result, a null error and a          *)
(* non-null completed_at; if the conversion raised the record is FAILED     *)
(* with a non-null error, a null result and a non-null completed_at.  A     *)
(* status query made after that shows exactly this record.                  *)
C8_ReturnedEndsByConversion ==
    \A id \in Ids :
        (wpc[id] = "done" /\ Outcome(id) = "returned") =>
            /\ executions[id].completed_at # None
            /\ IF w_result[id].strOk
               THEN /\ executions[id].state = "SUCCESS"
                    /\ executions[id].last_executed_task =
                          Some([output |-> output(w_result[id]),
                                task_name |-> "final_output_assembly"])
                    /\ executions[id].error = None
               ELSE /\ executions[id].state = "FAILED"
                    /\ executions[id].last_executed_task = None
                    /\ executions[id].error # None
            /\ \A i \in 1 .. Len(log) :
                  (StatusFor(i, id) /\ log[i].code = 200
                     /\ log[i].body[1].seenDone)
                      => Reports(log[i].body[1], executions[id])

C8_Witness ==
    \E id \in Ids : \E i \in 1 .. Len(log) :
        /\ wpc[id] = "done" /\ Outcome(id) = "returned"
        /\ w_result[id].strOk
        /\ StatusFor(i, id) /\ log[i].code = 200
        /\ log[i].body[1].seenDone
        /\ log[i].body[1].state = "SUCCESS"

(* C9: a step of the worker of job j leaves the record of every other job   *)
(* and the key set of the registry unchanged.                               *)
WorkerStep(j) == wpc[j] # "unstarted" /\ wpc'[j] # wpc[j]

C9_WorkerFrame ==
    [][\A j \in Ids :
          WorkerStep(j) =>
              /\ DOMAIN executions' = DOMAIN executions
              /\ \A k \in DOMAIN executions \ {j} :
                    executions'[k] = executions[k]]_vars

C9_Witness ==
    \E j, k \in DOMAIN executions :
        /\ j # k
        /\ wpc[j] = "done" /\ executions[j].state = "FAILED"
        /\ wpc[k] = "done" /\ executions[k].state = "SUCCESS"

(* C10: the identifier a kickoff inserts is not yet a key of the registry,  *)
(* the insertion changes no existing record, and the identifiers returned   *)
(* by kickoffs are pairwise distinct, one record per kickoff.               *)
Inserted ==
    Cardinality({i \in 1 .. Len(log) : KickoffOK(i)})
        + (IF hpc \in {"K134", "K141"} THEN 1 ELSE 0)

C11_ConsistentSnapshot ==
    \A i \in 1 .. Len(log) :
        (log[i].op = "status" /\ log[i].code = 200) =>
            \E k \in 1 .. Len(history[log[i].kickoff_id]) :
                Reports(log[i].body[1], history[log[i].kickoff_id][k])

(* C12: no step of kickoff or get_status waits for a worker: whatever the   *)
(* workers are doing (also one that stays in its workflow call for ever),   *)
(* the handler's next statement can run, and a new status query or kickoff  *)
(* can begin whenever the event loop is idle.                               *)
C12_HandlersNeverWait ==
    /\ hpc = "K124" => ENABLED K124
    /\ hpc = "K134" => ENABLED K134
    /\ hpc = "K141" => ENABLED K141
    /\ hpc = "S167" => ENABLED S167
    /\ hpc = "S168" => ENABLED S168
    /\ hpc = "S169" => ENABLED S169
    /\ hpc = "S170" => ENABLED S170
    /\ hpc = "S171" => ENABLED S171
    /\ (hpc = "idle" /\ Len(log) < MaxRequests) =>
          /\ \A id \in Ids : ENABLED S161(id)
          /\ Cardinality(DOMAIN executions) < MaxJobs =>
                \A body \in Bodies : Valid(body) => ENABLED K121(body)

C12_Witness ==
    \E p \in Pairs :
        /\ KickoffOK(p[1])
        /\ wpc[log[p[1]].kickoff_id] = "L79"
        /\ KickoffOK(p[2])
        /\ executions[log[p[2]].kickoff_id].state \in {"PENDING", "RUNNING"}

(* C13: under fair scheduling, with workflow calls that return or raise,    *)
(* every job that kickoff has created eventually has a terminal state.      *)
C13_EventuallyTerminal ==
    \A id \in Ids :
        (id \in DOMAIN executions)
            ~> (id \in DOMAIN executions /\ wpc[id] = "done"
                  /\ executions[id].state \in Terminal)

C13_Witness ==
    /\ Cardinality(DOMAIN executions) = MaxJobs
    /\ \A id \in DOMAIN executions :
          wpc[id] = "done" /\ executions[id].state \in Terminal

(* C14: no record has both a non-null last_executed_task and a non-null     *)
(* error, and both are null while the state is PENDING or RUNNING, also     *)
(* when the error is raised after the workflow call has returned.           *)
C14_ResultErrorExclusive ==
    \A id \in DOMAIN executions :
        /\ executions[id].last_executed_task = None
              \/ executions[id].error = None
        /\ executions[id].state \in {"PENDING", "RUNNING"} =>
              /\ executions[id].last_executed_task = None
              /\ executions[id].error = None

C14_Witness ==
    \E id \in DOMAIN executions :
        /\ wpc[id] = "done" /\ Outcome(id) = "returned"
        /\ executions[id].error = Some(ConvErr)
        /\ executions[id].last_executed_task = None

(* C15 as stated: once a record's completed_at is non-null, no step         *)
(* changes it.                                                              *)
C15_CompletedWrittenOnce ==
    [][\A id \in DOMAIN executions :
          executions[id].completed_at # None =>
              executions'[id].completed_at = executions[id].completed_at]_vars

(* C16: once a record's last_executed_task is non-null it never changes,    *)
(* and it is non-null only in a record whose state is SUCCESS.              *)
C16_ResultImmutable ==
    /\ [](\A id \in DOMAIN executions :
             executions[id].last_executed_task # None
                 => executions[id].state = "SUCCESS")
    /\ [][\A id \in DOMAIN executions :
             executions[id].last_executed_task # None =>
                 executions'[id].last_executed_task
                     = executions[id].last_executed_task]_vars

C16_Witness ==
    \E id, k \in DOMAIN executions :
        /\ id # k
        /\ wpc[id] = "done"
        /\ executions[id].last_executed_task # None
        /\ wpc[k] = "done"
        /\ Len(history[k]) > 1
        /\ history[k][2] # executions[k]

(* C17: a worker is started for an identifier only by the kickoff that      *)
(* created it, and once; it calls the workflow at most once (no retry);     *)
(* and after its creation a record is changed only by a step of its own     *)
(* worker.                                                                  *)
C17_OneWorkerOneCall ==
    /\ [](/\ \A id \in Ids : Len(invocations[id]) <= 1
          /\ \A i \in 1 .. Len(log) :
                KickoffOK(i) => wpc[log[i].kickoff_id] # "unstarted")
    /\ [][\A id \in Ids :
             /\ (wpc'[id] = "L76" /\ wpc[id] # "L76") =>
                   (wpc[id] = "unstarted" /\ hpc = "K134"
                      /\ h.kickoff_id = id)
             /\ (wpc[id] \notin {"unstarted", "L76"}) =>
                   wpc'[id] \notin {"L76", "L79"} \/ wpc'[id] = wpc[id]
             /\ (id \in DOMAIN executions
                   /\ executions'[id] # executions[id]) => WorkerStep(id)]_vars

C17_Witness ==
    \E id \in DOMAIN executions :
        /\ wpc[id] = "done"
        /\ invocations[id] = <<[inputs |-> executions[id].inputs,
                                outcome |-> "raised"]>>
        /\ executions[id].state = "FAILED"
        /\ hpc = "idle"

(* C18: the inputs and started_at of a record never change after kickoff    *)
(* has stored them, and the inputs given to the workflow call are the       *)
(* inputs stored in the record.                                             *)
C18_InputsVerbatim ==
    /\ [](\A id \in Ids :
             invocations[id] # <<>> =>
                 /\ id \in DOMAIN executions
                 /\ invocations[id][1].inputs = executions[id].inputs
                 /\ executions[id].inputs \in Inputs)
    /\ [][\A id \in DOMAIN executions :
             /\ executions'[id].inputs = executions[id].inputs
             /\ executions'[id].started_at = executions[id].started_at]_vars

C18_Witness ==
    \E j, k \in DOMAIN executions :
        /\ executions[j].inputs # executions[k].inputs
        /\ invocations[j] # <<>> /\ invocations[k] # <<>>
        /\ executions[j].started_at # executions[k].started_at

(* C19: a kickoff whose body fails validation is answered 422 without an    *)
(* identifier, and the step that answers it leaves the registry and the     *)
(* workers unchanged.                                                       *)
Answered422 ==
    /\ Len(log') = Len(log) + 1
    /\ log'[Len(log')].op = "kickoff"
    /\ log'[Len(log')].code = 422

C19_InvalidRejected ==
    /\ [](\A i \in 1 .. Len(log) :
             (log[i].op = "kickoff" /\ log[i].code = 422) =>
                 /\ log[i].kickoff_id \notin Ids
                 /\ log[i].body = None)
    /\ [](Cardinality(DOMAIN executions) = Inserted)
    /\ [][Answered422 =>
             /\ executions' = executions
             /\ wpc' = wpc
             /\ hpc' = "idle"]_vars

C19_Witness ==
    /\ DOMAIN executions # {}
    /\ \E p \in Pairs :
          /\ KickoffOK(p[1])
          /\ log[p[2]].op = "kickoff" /\ log[p[2]].code = 422

(* C20: a step of get_status, whether it answers 200 or 404, changes        *)
(* neither the key set of the registry nor any record nor any worker.       *)
StatusStep ==
    \/ hpc \in {"S167", "S168", "S169", "S170", "S171"} /\ hpc' # hpc
    \/ hpc = "idle" /\ hpc' = "S167"
    \/ /\ hpc = "idle"
       /\ Len(log') = Len(log) + 1
       /\ log'[Len(log')].op = "status"

C20_StatusReadOnly ==
    [][StatusStep => (executions' = executions /\ wpc' = wpc)]_vars

C20_Witness ==
    \E i \in 1 .. Len(log) :
        /\ log[i].op = "status" /\ log[i].code = 200
        /\ log[i].body[1].state = "PENDING"
        /\ wpc[log[i].kickoff_id] = "done"

====
